---- MODULE Spec2Model ----
(***************************************************************************)
(* Model of the topmovers server (Express handlers, Provider A and         *)
(* Provider B normalisers) and of the browser widget's loadData.           *)
(*                                                                         *)
(* JavaScript values are tagged records:                                   *)
(*   Undef, Null, Str(<<chars>>), NaN, Inf(sign), Fin(m, e) = m / 10^e.    *)
(* A string is a sequence of one-character strings, so that trim, replace, *)
(* parseFloat and parseInt are computed character by character.           *)
(* Finite numbers are exact decimals (binary rounding of doubles is not    *)
(* modelled; -0 and 0 are one value, as they are for === in the source).   *)
(***************************************************************************)
EXTENDS Integers, Sequences, FiniteSets, TLC

VARIABLES
  entry,       \* Provider A normaliser: the raw record handed to normalizeEntry
  normalized,  \* ... and normalizeEntry's result, Pending before the call
  quote,       \* Provider B normaliser: the raw quote handed to normalizeYahooQuote
  normalizedQuote,  \* ... and its result, Pending before the call
  yahooReq,    \* GET /api/yahoo-gainers: the request's limit query parameter
  yahooPc,     \* ... the handler's position: "idle", "fetching", "reading", "done"
  yahooUpstream,  \* ... the screener's response, Pending until it arrives
  yahooMapped, \* ... quotes.map(normalizeYahooQuote), before the filter
  yahooRes,    \* ... the HTTP response sent, Pending until then
  apiKey,      \* process.env.ALPHA_VANTAGE_API_KEY
  tmReq,       \* GET /api/top-movers: the request's limit query parameter
  tmPc,        \* ... the handler's position: "idle", "fetching", "reading", "done"
  tmLimit,     \* ... limitValue of the handler, Pending until resolved
  tmUpstream,  \* ... Alpha Vantage's response, Pending until it arrives
  tmRes,       \* ... the HTTP response sent, Pending until then
  openai,      \* widget: whether window.openai.callTool exists
  domLoaded,   \* ... whether DOMContentLoaded has fired
  inputValue,  \* ... limitInput.value
  loads,       \* ... the loadData invocations so far, in order of their start
  tables,      \* ... the children of tablesContainer
  tableOwners, \* ... for each child, the loadData invocation that appended it
  status       \* ... statusElement: its text and its tone

varsA == <<entry, normalized>>
varsQ == <<quote, normalizedQuote>>
varsY == <<yahooReq, yahooPc, yahooUpstream, yahooMapped, yahooRes>>
varsS == <<apiKey, tmReq, tmPc, tmLimit, tmUpstream, tmRes>>
varsW == <<openai, domLoaded, inputValue, loads, tables, tableOwners, status>>
vars == <<varsA, varsQ, varsY, varsS, varsW>>

\* what each component's actions leave alone
othersA == <<varsQ, varsY, varsS, varsW>>
othersQ == <<varsA, varsY, varsS, varsW>>
othersY == <<varsA, varsQ, varsS, varsW>>
othersS == <<varsA, varsQ, varsY, varsW>>
othersW == <<varsA, varsQ, varsY, varsS>>

\* an operation that has not produced its result yet
Pending == [k |-> "pending"]

(***************************************************************************)
(* JavaScript values                                                       *)
(***************************************************************************)
Undef == [k |-> "undef"]
Null == [k |-> "null"]
NaN == [k |-> "nan"]
Str(s) == [k |-> "str", v |-> s]
Inf(sgn) == [k |-> "inf", s |-> sgn]

RECURSIVE Pow10(_)
Pow10(n) == IF n = 0 THEN 1 ELSE 10 * Pow10(n - 1)

\* m / 10^e in lowest decimal form, so that equal numbers are equal records
RECURSIVE Fin(_, _)
Fin(m, e) ==
  IF e > 0 /\ m % 10 = 0 THEN Fin(m \div 10, e - 1)
  ELSE [k |-> "fin", m |-> m, e |-> e]

IsNumber(v) == v.k \in {"nan", "inf", "fin"}
IsNaN(v) == v.k = "nan"
IsFinite(v) == v.k = "fin"

\* a ?? b
Coalesce(a, b) == IF a.k \in {"undef", "null"} THEN b ELSE a

\* a JavaScript array
Arr(xs) == [k |-> "arr", v |-> xs]

\* the elements of (list ?? [])
OrEmptyList(list) == IF list.k \in {"undef", "null"} THEN <<>> ELSE list.v

\* ToBoolean(v)
Truthy(v) ==
  CASE v.k = "undef" -> FALSE
    [] v.k = "null" -> FALSE
    [] v.k = "nan" -> FALSE
    [] v.k = "str" -> v.v # <<>>
    [] v.k = "fin" -> v.m # 0
    [] OTHER -> TRUE

(***************************************************************************)
(* Strings                                                                 *)
(***************************************************************************)
Digits == {"0", "1", "2", "3", "4", "5", "6", "7", "8", "9"}

DigitVal(c) ==
  CASE c = "0" -> 0 [] c = "1" -> 1 [] c = "2" -> 2 [] c = "3" -> 3
    [] c = "4" -> 4 [] c = "5" -> 5 [] c = "6" -> 6 [] c = "7" -> 7
    [] c = "8" -> 8 [] c = "9" -> 9

RECURSIVE TrimLeft(_)
TrimLeft(s) ==
  IF s = <<>> THEN s
  ELSE IF Head(s) = " " THEN TrimLeft(Tail(s)) ELSE s

RECURSIVE TrimRight(_)
TrimRight(s) ==
  IF s = <<>> THEN s
  ELSE IF s[Len(s)] = " " THEN TrimRight(SubSeq(s, 1, Len(s) - 1)) ELSE s

\* String.prototype.trim
Trim(s) == TrimRight(TrimLeft(s))

IsDecoration(c) == c \in {"+", ",", "%", "$", "M"}
NotDecoration(c) == ~IsDecoration(c)

\* value.replace(/[+,%$M]/g, '')
StripDecoration(s) == SelectSeq(s, NotDecoration)

RECURSIVE DigitPrefixLen(_)
DigitPrefixLen(s) ==
  IF s = <<>> THEN 0
  ELSE IF Head(s) \in Digits THEN 1 + DigitPrefixLen(Tail(s)) ELSE 0

RECURSIVE DigitsValue(_)
DigitsValue(s) ==
  IF s = <<>> THEN 0
  ELSE 10 * DigitsValue(SubSeq(s, 1, Len(s) - 1)) + DigitVal(s[Len(s)])

DigitChar(d) ==
  CASE d = 0 -> "0" [] d = 1 -> "1" [] d = 2 -> "2" [] d = 3 -> "3"
    [] d = 4 -> "4" [] d = 5 -> "5" [] d = 6 -> "6" [] d = 7 -> "7"
    [] d = 8 -> "8" [] d = 9 -> "9"

\* the decimal text of a non-negative integer, as template literals and
\* String() produce it
RECURSIVE IntToStr(_)
IntToStr(n) ==
  IF n < 10 THEN <<DigitChar(n)>>
  ELSE IntToStr(n \div 10) \o <<DigitChar(n % 10)>>

\* a message text whose characters the program never inspects, held as one
\* token of a string
Text(t) == [k |-> "str", v |-> <<t>>]

HasPrefix(s, p) == Len(s) >= Len(p) /\ SubSeq(s, 1, Len(p)) = p

InfinityLit == <<"I", "n", "f", "i", "n", "i", "t", "y">>

\* Number.parseFloat: leading white space, sign, then "Infinity" or the
\* longest decimal prefix; NaN when there is none.  The modelled strings
\* hold no 'e'/'E', so the exponent part of a literal cannot occur.
parseFloat(s) ==
  LET t == TrimLeft(s)
      signed == t # <<>> /\ Head(t) \in {"+", "-"}
      sgn == IF t # <<>> /\ Head(t) = "-" THEN -1 ELSE 1
      u == IF signed THEN Tail(t) ELSE t
      ip == DigitPrefixLen(u)
      rest == SubSeq(u, ip + 1, Len(u))
      hasDot == rest # <<>> /\ Head(rest) = "."
      fp == IF hasDot THEN DigitPrefixLen(Tail(rest)) ELSE 0
      frac == IF hasDot THEN SubSeq(Tail(rest), 1, fp) ELSE <<>>
  IN IF HasPrefix(u, InfinityLit) THEN Inf(sgn)
     ELSE IF ip = 0 /\ fp = 0 THEN NaN
     ELSE Fin(sgn * DigitsValue(SubSeq(u, 1, ip) \o frac), fp)

\* Number.parseInt(s, 10): leading white space, sign, decimal digits
parseInt(s) ==
  LET t == TrimLeft(s)
      signed == t # <<>> /\ Head(t) \in {"+", "-"}
      sgn == IF t # <<>> /\ Head(t) = "-" THEN -1 ELSE 1
      u == IF signed THEN Tail(t) ELSE t
      ip == DigitPrefixLen(u)
  IN IF ip = 0 THEN NaN ELSE Fin(sgn * DigitsValue(SubSeq(u, 1, ip)), 0)

\* x * 1_000_000
TimesMillion(x) ==
  CASE x.k = "fin" ->
         IF x.e <= 6 THEN Fin(x.m * Pow10(6 - x.e), 0) ELSE Fin(x.m, x.e - 6)
    [] OTHER -> x

\* Math.round: nearest integer, halves towards +Infinity
MathRound(x) ==
  CASE x.k = "fin" -> Fin((2 * x.m + Pow10(x.e)) \div (2 * Pow10(x.e)), 0)
    [] OTHER -> x

(***************************************************************************)
(* Provider A normaliser                                                   *)
(***************************************************************************)
parseNumericString(value) ==
  IF ~Truthy(value) THEN Null
  ELSE LET parsed == parseFloat(Trim(StripDecoration(value.v)))
       IN IF IsNaN(parsed) THEN Null ELSE parsed

\* normalizeVolume with the fallback defaulting to 0, as price/change do
normalizeVolumeZeroDefault(e) ==
  LET rawVolume == parseNumericString(e.volume)
      volumeMillions == parseNumericString(e.volume_millions)
  IN IF rawVolume # Null THEN rawVolume
     ELSE IF volumeMillions # Null THEN MathRound(TimesMillion(volumeMillions))
     ELSE Fin(0, 0)

\* the volume IIFE of normalizeEntry
normalizeVolume(e) ==
  LET rawVolume == parseNumericString(e.volume)
      volumeMillions == parseNumericString(e.volume_millions)
  IN IF rawVolume # Null THEN rawVolume
     ELSE IF volumeMillions # Null THEN MathRound(TimesMillion(volumeMillions))
     ELSE Null

normalizeEntry(e) ==
  [ticker |-> Coalesce(e.ticker, Coalesce(e.symbol, Str(<<"N", "/", "A">>))),
   price |-> Coalesce(parseNumericString(e.price), Fin(0, 0)),
   change |-> Coalesce(parseNumericString(e.change_amount), Fin(0, 0)),
   changePercent |-> Coalesce(parseNumericString(e.change_percentage), Fin(0, 0)),
   volume |-> normalizeVolume(e)]

(***************************************************************************)
(* Raw strings of the upstream feeds                                       *)
(***************************************************************************)
S_empty == <<>>
S_abc == <<"a", "b", "c">>
S_Infinity == <<"I", "n", "f", "i", "n", "i", "t", "y">>
S_negInfinity == <<"-">> \o S_Infinity
S_12_50 == <<"1", "2", ".", "5", "0">>
S_plus1_25 == <<"+", "1", ".", "2", "5">>
S_11_11pct == <<"1", "1", ".", "1", "1", "%">>
S_2_5 == <<"2", ".", "5">>
S_2_5M == <<"2", ".", "5", "M">>
S_1000000 == <<"1", "0", "0", "0", "0", "0", "0">>
S_0 == <<"0">>
S_neg3_5 == <<"-", "3", ".", "5">>
S_dollar1comma000 == <<"$", "1", ",", "0", "0", "0">>
S_sp7sp == <<" ", "7", " ">>
S_halfMicro == <<"0", ".", "0", "0", "0", "0", "0", "0", "5">>
S_1_2345678 == <<"1", ".", "2", "3", "4", "5", "6", "7", "8">>
S_NA == <<"N", "/", "A">>
S_ABC == <<"A", "B", "C">>
S_XYZ == <<"X", "Y", "Z">>

\* values a string field of a raw Provider A record takes; Undef = absent
PriceValues ==
  {Undef} \cup {Str(s) : s \in {S_empty, S_abc, S_Infinity, S_negInfinity,
     S_12_50, S_plus1_25, S_11_11pct, S_0, S_neg3_5, S_dollar1comma000,
     S_sp7sp}}
ChangeValues == {Undef, Str(S_plus1_25), Str(S_Infinity), Str(S_abc)}
PercentValues == {Undef, Str(S_11_11pct), Str(S_negInfinity), Str(S_empty)}
VolumeValues ==
  {Undef} \cup {Str(s) : s \in {S_empty, S_abc, S_1000000, S_0, S_Infinity}}
VolumeMillionsValues ==
  {Undef} \cup {Str(s) : s \in {S_empty, S_abc, S_2_5, S_2_5M, S_0,
     S_halfMicro, S_1_2345678, S_Infinity}}
TickerValues == {Undef, Str(S_empty), Str(S_ABC)}
SymbolValues == {Undef, Str(S_empty), Str(S_XYZ)}

RawEntries ==
  [ticker : TickerValues, symbol : SymbolValues, price : PriceValues,
   change_amount : ChangeValues, change_percentage : PercentValues,
   volume : VolumeValues, volume_millions : VolumeMillionsValues]

(***************************************************************************)
(* Specification of the Provider A normaliser: a raw record is drawn, and  *)
(* normalizeEntry is applied to it.                                        *)
(***************************************************************************)
IdleA == entry = Pending /\ normalized = Pending
IdleQ == quote = Pending /\ normalizedQuote = Pending
IdleY ==
  /\ yahooReq = Pending
  /\ yahooPc = "idle"
  /\ yahooUpstream = Pending
  /\ yahooMapped = Pending
  /\ yahooRes = Pending
IdleS ==
  /\ apiKey = Pending
  /\ tmReq = Pending
  /\ tmPc = "idle"
  /\ tmLimit = Pending
  /\ tmUpstream = Pending
  /\ tmRes = Pending

IdleW ==
  /\ openai = FALSE
  /\ domLoaded = FALSE
  /\ inputValue = Pending
  /\ loads = <<>>
  /\ tables = <<>>
  /\ tableOwners = <<>>
  /\ status = Pending

InitA ==
  /\ entry \in RawEntries
  /\ normalized = Pending
  /\ IdleQ /\ IdleY /\ IdleS /\ IdleW

NormalizeEntryCall ==
  /\ normalized = Pending
  /\ normalized' = normalizeEntry(entry)
  /\ UNCHANGED <<entry, othersA>>

NextA == NormalizeEntryCall

SpecA == InitA /\ [][NextA]_vars

(***************************************************************************)
(* Provider A normaliser: properties                                       *)
(***************************************************************************)
\* C2: for every raw Provider A record, price, change and changePercent of
\* the normalized record are finite numbers (never NaN, infinite or null).
C2_NumericFieldsFinite ==
  normalized # Pending =>
    /\ IsFinite(normalized.price)
    /\ IsFinite(normalized.change)
    /\ IsFinite(normalized.changePercent)

\* C3: for every raw Provider A record, the ticker of the normalized record
\* is a string and never the empty string.
C3_TickerNeverEmpty ==
  normalized # Pending =>
    /\ normalized.ticker.k = "str"
    /\ normalized.ticker.v # S_empty

\* A field carries a number: it is a non-empty string whose decoration-free
\* text starts with a numeric literal.
ParsesAsNumber(field) ==
  /\ field.k = "str"
  /\ field.v # S_empty
  /\ ~IsNaN(parseFloat(Trim(StripDecoration(field.v))))

NumberOf(field) == parseFloat(Trim(StripDecoration(field.v)))

\* a field is present: the record has it, and it is not the empty string
Present(field) == field.k = "str" /\ field.v # S_empty

\* C10 as stated: the volume is parsed from the volume field whenever that
\* field is present (whatever it holds), and only a record without a volume
\* field falls back to volume_millions, and then to null.
C10_VolumeFieldWhenPresent ==
  normalized # Pending =>
    IF Present(entry.volume)
    THEN normalized.volume = IF ParsesAsNumber(entry.volume)
                             THEN NumberOf(entry.volume) ELSE Null
    ELSE IF ParsesAsNumber(entry.volume_millions)
    THEN normalized.volume = MathRound(TimesMillion(NumberOf(entry.volume_millions)))
    ELSE normalized.volume = Null

\* C10 amended: the volume is parsed from the volume field when that field
\* carries a number; otherwise it is the number carried by volume_millions
\* times 1,000,000, rounded; otherwise null, never 0.  A record with neither
\* field yields null, one with only volume_millions = "2.5" yields 2500000.
C10_VolumeResolution ==
  normalized # Pending =>
    /\ ParsesAsNumber(entry.volume) =>
         normalized.volume = NumberOf(entry.volume)
    /\ ~ParsesAsNumber(entry.volume) /\ ParsesAsNumber(entry.volume_millions) =>
         normalized.volume = MathRound(TimesMillion(NumberOf(entry.volume_millions)))
    /\ ~ParsesAsNumber(entry.volume) /\ ~ParsesAsNumber(entry.volume_millions) =>
         normalized.volume = Null
    /\ entry.volume = Undef /\ entry.volume_millions = Undef =>
         normalized.volume = Null
    /\ entry.volume = Undef /\ entry.volume_millions = Str(S_2_5) =>
         normalized.volume = [k |-> "fin", m |-> 2500000, e |-> 0]

\* a record with only volume_millions = "2.5" has been normalized to 2500000
C10_Witness ==
  /\ normalized # Pending
  /\ entry.volume = Undef
  /\ entry.volume_millions = Str(S_2_5)
  /\ normalized.volume = [k |-> "fin", m |-> 2500000, e |-> 0]

(***************************************************************************)
(* Provider B normaliser                                                   *)
(***************************************************************************)
S_UnknownCompany ==
  <<"U", "n", "k", "n", "o", "w", "n", " ", "C", "o", "m", "p", "a", "n", "y">>
S_Acme == <<"A", "c", "m", "e">>
S_AcmeCorp == <<" ", "A", "c", "m", "e", " ", "C", "o", "r", "p", " ">>
S_blank == <<" ", " ">>
S_spXYZsp == <<" ", "X", "Y", "Z", " ">>
S_5 == <<"5">>

\* isFiniteNumber with the finiteness test left out (typeof alone)
isFiniteNumberTypeOnly(value) == IsNumber(value)

\* typeof value === 'number' && Number.isFinite(value)
isFiniteNumber(value) == IsNumber(value) /\ IsFinite(value)

\* value?.trim()
OptionalTrim(value) ==
  IF value.k \in {"undef", "null"} THEN Undef ELSE Str(Trim(value.v))

FiniteOrNull(value) == IF isFiniteNumber(value) THEN value ELSE Null

normalizeYahooQuote(q) ==
  LET symbol == Coalesce(OptionalTrim(q.symbol), Str(S_NA))
      rawName == Coalesce(q.shortName, Coalesce(q.longName, Str(S_empty)))
      trimmedName == Trim(rawName.v)
  IN [symbol |-> symbol,
      name |-> IF Len(trimmedName) > 0 THEN Str(trimmedName)
               ELSE Str(S_UnknownCompany),
      price |-> FiniteOrNull(q.regularMarketPrice),
      previousClose |-> FiniteOrNull(q.regularMarketPreviousClose),
      change |-> FiniteOrNull(q.regularMarketChange),
      changePercent |-> FiniteOrNull(q.regularMarketChangePercent)]

\* values of the fields of a raw Provider B quote; Undef = absent
QuoteSymbolValues ==
  {Undef} \cup {Str(s) : s \in {S_empty, S_blank, S_NA, S_ABC, S_spXYZsp}}
ShortNameValues == {Undef} \cup {Str(s) : s \in {S_empty, S_blank, S_Acme}}
LongNameValues == {Undef} \cup {Str(s) : s \in {S_empty, S_blank, S_AcmeCorp}}
MarketPriceValues ==
  {Undef, Null, NaN, Inf(1), Inf(-1), Fin(0, 0), Fin(125, 1), Fin(-3, 0),
   Str(S_5)}
MarketOtherValues == {Undef, NaN, Inf(1), Fin(0, 0), Fin(111, 2)}

RawQuotes ==
  [symbol : {Undef, Str(S_ABC)}, shortName : ShortNameValues,
   longName : LongNameValues,
   regularMarketPrice : MarketPriceValues,
   regularMarketPreviousClose : MarketOtherValues,
   regularMarketChange : MarketOtherValues,
   regularMarketChangePercent : MarketOtherValues]

(***************************************************************************)
(* Specification of the Provider B normaliser: a raw quote is drawn, and   *)
(* normalizeYahooQuote is applied to it.                                   *)
(***************************************************************************)
InitQ ==
  /\ quote \in RawQuotes
  /\ normalizedQuote = Pending
  /\ IdleA /\ IdleY /\ IdleS /\ IdleW

NormalizeYahooQuoteCall ==
  /\ normalizedQuote = Pending
  /\ normalizedQuote' = normalizeYahooQuote(quote)
  /\ UNCHANGED <<quote, othersQ>>

NextQ == NormalizeYahooQuoteCall

SpecQ == InitQ /\ [][NextQ]_vars

\* the trimmed text of a name field, empty when the field is absent
TrimmedOrEmpty(field) == IF field.k = "str" THEN Trim(field.v) ELSE S_empty

\* C7: the name is the trimmed shortName if that is non-empty, else the
\* trimmed longName if that is non-empty, else "Unknown Company".
C7_NameResolution ==
  normalizedQuote # Pending =>
    normalizedQuote.name =
      IF TrimmedOrEmpty(quote.shortName) # S_empty
      THEN Str(TrimmedOrEmpty(quote.shortName))
      ELSE IF TrimmedOrEmpty(quote.longName) # S_empty
      THEN Str(TrimmedOrEmpty(quote.longName))
      ELSE Str(S_UnknownCompany)

\* a raw field holds a finite number
RawIsFinite(raw) == raw.k = "fin"

FieldPreserved(raw, out) ==
  /\ RawIsFinite(raw) => out = raw
  /\ ~RawIsFinite(raw) => out = Null

\* C8: each of price, previousClose, change and changePercent equals the raw
\* field when that is a finite number (0 stays 0) and is null when the raw
\* field is absent, NaN, infinite or not a number.
C8_NumericFieldsPreserved ==
  normalizedQuote # Pending =>
    /\ FieldPreserved(quote.regularMarketPrice, normalizedQuote.price)
    /\ FieldPreserved(quote.regularMarketPreviousClose,
                      normalizedQuote.previousClose)
    /\ FieldPreserved(quote.regularMarketChange, normalizedQuote.change)
    /\ FieldPreserved(quote.regularMarketChangePercent,
                      normalizedQuote.changePercent)

\* a quote with an actual 0 price and a NaN change has been normalized
C8_Witness ==
  /\ normalizedQuote # Pending
  /\ quote.regularMarketPrice = [k |-> "fin", m |-> 0, e |-> 0]
  /\ normalizedQuote.price = [k |-> "fin", m |-> 0, e |-> 0]
  /\ quote.regularMarketChange = NaN
  /\ normalizedQuote.change = Null
  /\ quote.regularMarketChangePercent = Inf(1)
  /\ normalizedQuote.changePercent = Null

(***************************************************************************)
(* GET /api/yahoo-gainers and getYahooGainers                              *)
(***************************************************************************)
MaxQuotes == 3

\* raw quotes of a screener response: every kind of symbol, one name
ListQuotes ==
  [symbol : QuoteSymbolValues, shortName : {Str(S_Acme)}, longName : {Undef},
   regularMarketPrice : {Fin(125, 1)},
   regularMarketPreviousClose : {Fin(12, 0)},
   regularMarketChange : {Fin(5, 1)},
   regularMarketChangePercent : {NaN}]

SeqsUpTo(S, n) == UNION {[1..m -> S] : m \in 0..n}

\* what fetch(url) settles with: a transport failure, or a response with a
\* status and a body; a body with quotes = Undef has no
\* finance.result[0].quotes
YahooUpstreamResponses ==
  {[kind |-> "netError"]}
  \cup [kind : {"http"}, status : {429, 500}, quotes : {Undef}]
  \cup [kind : {"http"}, status : {200},
        quotes : {Undef} \cup {Arr(xs) : xs \in SeqsUpTo(ListQuotes, MaxQuotes)}]

LimitQueryValues ==
  {Undef} \cup {Str(s) : s \in {S_empty, S_0, <<"1">>, <<"2">>, S_abc}}

\* response.ok
ResponseOk(r) == r.status >= 200 /\ r.status <= 299

\* quotes.map(normalizeYahooQuote)
mapNormalizeYahooQuote(quotes) ==
  [i \in 1..Len(quotes) |-> normalizeYahooQuote(quotes[i])]

\* the filter of getYahooGainers with the length test left out
keepsQuoteNotNA(nq) == nq.symbol # Str(S_NA)

\* (quote) => quote.symbol !== 'N/A' && quote.symbol.length > 0
keepsQuote(nq) == nq.symbol # Str(S_NA) /\ Len(nq.symbol.v) > 0

\* res.status(500).json({ error: message })
ErrorResponse(message) == [status |-> 500, body |-> [error |-> message]]

InitY ==
  /\ yahooReq \in LimitQueryValues
  /\ yahooPc = "idle"
  /\ yahooUpstream = Pending
  /\ yahooMapped = Pending
  /\ yahooRes = Pending
  /\ IdleA /\ IdleQ /\ IdleS /\ IdleW

\* the handler runs getYahooGainers up to its await fetch(url)
YahooHandlerStart ==
  /\ yahooPc = "idle"
  /\ yahooPc' = "fetching"
  /\ UNCHANGED <<yahooReq, yahooUpstream, yahooMapped, yahooRes, othersY>>

\* fetch rejects: the handler's catch answers 500
YahooFetchRejects ==
  /\ yahooPc = "fetching"
  /\ yahooUpstream' = [kind |-> "netError"]
  /\ yahooRes' = ErrorResponse(Text("fetch failed"))
  /\ yahooPc' = "done"
  /\ UNCHANGED <<yahooReq, yahooMapped, othersY>>

\* fetch resolves with a non-success status: getYahooGainers throws
YahooFetchNotOk ==
  /\ yahooPc = "fetching"
  /\ \E r \in YahooUpstreamResponses :
       /\ r.kind = "http" /\ ~ResponseOk(r)
       /\ yahooUpstream' = r
       /\ yahooRes' = ErrorResponse(
            Str(<<"Yahoo Finance request failed with status ">>
                \o IntToStr(r.status)))
  /\ yahooPc' = "done"
  /\ UNCHANGED <<yahooReq, yahooMapped, othersY>>

\* fetch resolves with a success status: on to await response.json()
YahooFetchOk ==
  /\ yahooPc = "fetching"
  /\ \E r \in YahooUpstreamResponses :
       /\ r.kind = "http" /\ ResponseOk(r)
       /\ yahooUpstream' = r
  /\ yahooPc' = "reading"
  /\ UNCHANGED <<yahooReq, yahooMapped, yahooRes, othersY>>

\* the body is read: map, filter, res.json({ quotes })
YahooBodyRead ==
  /\ yahooPc = "reading"
  /\ LET quotes == OrEmptyList(yahooUpstream.quotes)
         mapped == mapNormalizeYahooQuote(quotes)
     IN /\ yahooMapped' = Arr(mapped)
        /\ yahooRes' = [status |-> 200,
                        body |-> [quotes |-> SelectSeq(mapped, keepsQuote)]]
  /\ yahooPc' = "done"
  /\ UNCHANGED <<yahooReq, yahooUpstream, othersY>>

NextY ==
  \/ YahooHandlerStart
  \/ YahooFetchRejects
  \/ YahooFetchNotOk
  \/ YahooFetchOk
  \/ YahooBodyRead

SpecY == InitY /\ [][NextY]_vars

\* a raw quote carries a usable symbol
HasUsableSymbol(q) ==
  /\ q.symbol.k = "str"
  /\ Trim(q.symbol.v) # S_empty
  /\ Trim(q.symbol.v) # S_NA

\* C9: every quote returned by GET /api/yahoo-gainers has a non-empty symbol
\* other than "N/A"; raw quotes whose symbol is absent, empty or white space
\* are discarded, and the remaining quotes keep their upstream order.
C9_ReturnedQuotesHaveSymbols ==
  (yahooPc = "done" /\ yahooRes.status = 200) =>
    LET out == yahooRes.body.quotes
        raw == OrEmptyList(yahooUpstream.quotes)
        kept == SelectSeq(raw, HasUsableSymbol)
    IN /\ \A i \in 1..Len(out) :
            /\ out[i].symbol.k = "str"
            /\ out[i].symbol.v # S_empty
            /\ out[i].symbol.v # S_NA
       /\ Len(out) = Len(kept)
       /\ \A i \in 1..Len(out) : out[i] = yahooMapped.v[
            CHOOSE j \in 1..Len(raw) :
              /\ HasUsableSymbol(raw[j])
              /\ Len(SelectSeq(SubSeq(raw, 1, j), HasUsableSymbol)) = i]

\* a response listing a blank symbol between two usable ones was filtered
C9_Witness ==
  /\ yahooPc = "done"
  /\ yahooRes.status = 200
  /\ Len(OrEmptyList(yahooUpstream.quotes)) = 3
  /\ yahooUpstream.quotes.v[1].symbol = Str(S_spXYZsp)
  /\ yahooUpstream.quotes.v[2].symbol = Str(S_blank)
  /\ yahooUpstream.quotes.v[3].symbol = Str(S_ABC)
  /\ Len(yahooRes.body.quotes) = 2
  /\ yahooRes.body.quotes[1].symbol = Str(S_XYZ)
  /\ yahooRes.body.quotes[2].symbol = Str(S_ABC)

(***************************************************************************)
(* GET /api/top-movers and getTopMovers                                    *)
(***************************************************************************)
LimitMin == 1
LimitMax == 20
LimitDefault == 10
MaxList == 2

\* limitSchema.parse(value) for a value that is a number: the value when it
\* is an integer of [LimitMin, LimitMax], a ZodError otherwise
limitSchemaParse(value) ==
  IF value.k = "undef" THEN [ok |-> TRUE, value |-> Fin(LimitDefault, 0)]
  ELSE IF value.k # "fin"
  THEN [ok |-> FALSE, error |-> Text("ZodError: limit must be a number")]
  ELSE IF value.e # 0
  THEN [ok |-> FALSE, error |-> Text("ZodError: Expected integer, received float")]
  ELSE IF value.m < LimitMin
  THEN [ok |-> FALSE, error |-> Text("ZodError: Number must be greater than or equal to 1")]
  ELSE IF value.m > LimitMax
  THEN [ok |-> FALSE, error |-> Text("ZodError: Number must be less than or equal to 20")]
  ELSE [ok |-> TRUE, value |-> value]

\* req.query.limit ? Number.parseInt(String(req.query.limit), 10) : 10
QueryLimit(q) == IF Truthy(q) THEN parseInt(q.v) ELSE Fin(LimitDefault, 0)

\* the upstream error test with the note field forgotten
hasUpstreamErrorMessageOnly(data) == Truthy(data.message)

\* data.message || data.note
hasUpstreamError(data) == Truthy(data.message) \/ Truthy(data.note)

\* data.message || data.note || 'Unexpected response from Alpha Vantage.'
upstreamErrorText(data) ==
  IF Truthy(data.message) THEN data.message
  ELSE IF Truthy(data.note) THEN data.note
  ELSE Text("Unexpected response from Alpha Vantage.")

Min(a, b) == IF a < b THEN a ELSE b

\* normalizeList with the slice left out
normalizeListNoSlice(items, limitValue) ==
  LET list == OrEmptyList(items)
  IN [i \in 1..Len(list) |-> normalizeEntry(list[i])]

\* (items ?? []).slice(0, limitValue).map(normalizeEntry)
normalizeList(items, limitValue) ==
  LET list == OrEmptyList(items)
      sliced == SubSeq(list, 1, Min(limitValue.m, Len(list)))
  IN [i \in 1..Len(sliced) |-> normalizeEntry(sliced[i])]

\* the output object of getTopMovers
topMoversOutput(data, limitValue) ==
  [gainers |-> normalizeList(data.top_gainers, limitValue),
   losers |-> normalizeList(data.top_losers, limitValue),
   mostActive |-> normalizeList(data.top_most_actively_traded, limitValue)]

\* two raw records of the feed: a well-formed one, and one with a symbol
\* instead of a ticker, a malformed price and its volume in millions
EntryABC ==
  [ticker |-> Str(S_ABC), symbol |-> Undef, price |-> Str(S_12_50),
   change_amount |-> Str(S_plus1_25), change_percentage |-> Str(S_11_11pct),
   volume |-> Str(S_1000000), volume_millions |-> Undef]
EntryXYZ ==
  [ticker |-> Undef, symbol |-> Str(S_XYZ), price |-> Str(S_abc),
   change_amount |-> Str(S_neg3_5), change_percentage |-> Undef,
   volume |-> Undef, volume_millions |-> Str(S_2_5)]

ListsOf(S) == {Undef} \cup {Arr(xs) : xs \in SeqsUpTo(S, MaxList)}

TopMoversBodies ==
  [message : {Undef, Str(S_empty), Text("Invalid API call.")},
   note : {Undef, Str(S_empty), Text("Our standard API rate limit is 25 requests per day.")},
   top_gainers : ListsOf({EntryABC, EntryXYZ}),
   top_losers : ListsOf({EntryXYZ}),
   top_most_actively_traded : ListsOf({EntryABC})]

TopMoversStatuses == {200, 429, 500}

ApiKeyValues == {Undef, Str(S_empty), Text("demo")}

TopMoversLimitQueryValues ==
  {Undef} \cup {Str(s) : s \in {S_empty, S_0, <<"1">>, <<"2">>, <<"7">>,
     <<"7", ".", "9">>, <<"2", "0">>, <<"2", "1">>, <<"9", "9", "9">>,
     S_abc, <<"-", "3">>}}

InitS ==
  /\ apiKey \in ApiKeyValues
  /\ tmReq \in TopMoversLimitQueryValues
  /\ tmPc = "idle"
  /\ tmLimit = Pending
  /\ tmUpstream = Pending
  /\ tmRes = Pending
  /\ IdleA /\ IdleQ /\ IdleY /\ IdleW

\* the handler up to the await fetch(url) of getTopMovers: the limit is
\* parsed, then the credential is looked up; either may throw into the
\* handler's catch
TopMoversHandlerStart ==
  /\ tmPc = "idle"
  /\ LET parsed == limitSchemaParse(QueryLimit(tmReq))
     IN IF ~parsed.ok
        THEN /\ tmRes' = ErrorResponse(parsed.error)
             /\ tmPc' = "done"
             /\ UNCHANGED tmLimit
        ELSE /\ tmLimit' = parsed.value
             /\ IF ~Truthy(apiKey)
                THEN /\ tmRes' = ErrorResponse(
                          Text("Missing ALPHA_VANTAGE_API_KEY environment variable."))
                     /\ tmPc' = "done"
                ELSE /\ tmPc' = "fetching"
                     /\ UNCHANGED tmRes
  /\ UNCHANGED <<apiKey, tmReq, tmUpstream, othersS>>

\* fetch rejects
TopMoversFetchRejects ==
  /\ tmPc = "fetching"
  /\ tmUpstream' = [kind |-> "netError"]
  /\ tmRes' = ErrorResponse(Text("fetch failed"))
  /\ tmPc' = "done"
  /\ UNCHANGED <<apiKey, tmReq, tmLimit, othersS>>

\* fetch resolves; ensureSuccess throws on a non-success status, otherwise
\* the handler awaits response.json()
TopMoversFetchResolves ==
  /\ tmPc = "fetching"
  /\ \E st \in TopMoversStatuses, body \in TopMoversBodies :
       LET r == [kind |-> "http", status |-> st, body |-> body]
       IN /\ tmUpstream' = r
          /\ IF ~ResponseOk(r)
             THEN /\ tmRes' = ErrorResponse(
                       Str(<<"Alpha Vantage request failed with status ">>
                           \o IntToStr(st)))
                  /\ tmPc' = "done"
             ELSE /\ tmPc' = "reading"
                  /\ UNCHANGED tmRes
  /\ UNCHANGED <<apiKey, tmReq, tmLimit, othersS>>

\* the body is read: the upstream error test, then the three lists
TopMoversBodyRead ==
  /\ tmPc = "reading"
  /\ LET data == tmUpstream.body
         again == limitSchemaParse(tmLimit)
     IN IF hasUpstreamError(data)
        THEN tmRes' = ErrorResponse(upstreamErrorText(data))
        ELSE IF ~again.ok
        THEN tmRes' = ErrorResponse(again.error)
        ELSE tmRes' = [status |-> 200,
                       body |-> topMoversOutput(data, again.value)]
  /\ tmPc' = "done"
  /\ UNCHANGED <<apiKey, tmReq, tmLimit, tmUpstream, othersS>>

NextS ==
  \/ TopMoversHandlerStart
  \/ TopMoversFetchRejects
  \/ TopMoversFetchResolves
  \/ TopMoversBodyRead

SpecS == InitS /\ [][NextS]_vars

(***************************************************************************)
(* GET /api/top-movers: properties                                         *)
(***************************************************************************)
\* the requested limit clamped to [LimitMin, LimitMax], LimitDefault when
\* it is absent or not a number
ClampedLimit(q) ==
  LET n == IF q.k = "str" THEN parseInt(q.v) ELSE NaN
  IN IF n.k # "fin" THEN LimitDefault
     ELSE IF n.m < LimitMin THEN LimitMin
     ELSE IF n.m > LimitMax THEN LimitMax
     ELSE n.m

\* C1: the handler resolves every requested limit to the request clamped to
\* [1, 20], or 10 when it is absent or not a number (0 gives 1, 999 gives
\* 20, "abc" gives 10, 7 gives 7), and no requested limit makes the request
\* fail.
C1_LimitClampedNeverFails ==
  tmPc # "idle" =>
    tmLimit = [k |-> "fin", m |-> ClampedLimit(tmReq), e |-> 0]

IsSuccessResponse(res) ==
  /\ res.status = 200
  /\ DOMAIN res.body = {"gainers", "losers", "mostActive"}

IsErrorResponse(res) ==
  /\ res.status = 500
  /\ DOMAIN res.body = {"error"}
  /\ res.body.error.k = "str"

UpstreamNotOk ==
  /\ tmUpstream # Pending
  /\ tmUpstream.kind = "http" => ~ResponseOk(tmUpstream)

UpstreamBodyArrived ==
  /\ tmUpstream # Pending
  /\ tmUpstream.kind = "http"
  /\ ResponseOk(tmUpstream)

\* C4 as stated: a finished request has answered either with all three
\* lists or with status 500 and only {error}; and it is the error whenever
\* the credential is absent, the upstream status is not a success, or the
\* upstream body carries a message or a note field (whatever its content).
C4_ErrorOnAnyMessageOrNoteField ==
  tmPc = "done" =>
    /\ IsSuccessResponse(tmRes) \/ IsErrorResponse(tmRes)
    /\ ~(IsSuccessResponse(tmRes) /\ IsErrorResponse(tmRes))
    /\ ( \/ ~Truthy(apiKey)
         \/ UpstreamNotOk
         \/ /\ UpstreamBodyArrived
            /\ \/ tmUpstream.body.message # Undef
               \/ tmUpstream.body.note # Undef )
       => IsErrorResponse(tmRes)

\* C4 amended: as stated, for a message or note field that is not empty.
C4_ErrorOnNonEmptyMessageOrNote ==
  tmPc = "done" =>
    /\ IsSuccessResponse(tmRes) \/ IsErrorResponse(tmRes)
    /\ ~(IsSuccessResponse(tmRes) /\ IsErrorResponse(tmRes))
    /\ ( \/ ~Truthy(apiKey)
         \/ UpstreamNotOk
         \/ /\ UpstreamBodyArrived
            /\ \/ Present(tmUpstream.body.message)
               \/ Present(tmUpstream.body.note) )
       => IsErrorResponse(tmRes)

\* a success status whose body carries a note next to non-empty lists has
\* been answered with the error alone
C4_Witness ==
  /\ tmPc = "done"
  /\ UpstreamBodyArrived
  /\ tmUpstream.body.message = Undef
  /\ Present(tmUpstream.body.note)
  /\ Len(OrEmptyList(tmUpstream.body.top_gainers)) > 0
  /\ IsErrorResponse(tmRes)
  /\ tmRes.body.error = tmUpstream.body.note

(***************************************************************************)
(* The widget: loadData and what it renders                                *)
(***************************************************************************)
MaxLoads == 2
WidgetLimitMin == 1
WidgetLimitMax == 20
WidgetLimitDefault == 10

Max(a, b) == IF a > b THEN a ELSE b

\* Math.min(Math.max(parseInt(limitInput.value, 10) || 10, 1), 20)
widgetLimit(value) ==
  LET n == parseInt(value)
      base == IF Truthy(n) THEN n.m ELSE WidgetLimitDefault
  IN Min(Max(base, WidgetLimitMin), WidgetLimitMax)

Fulfilled(value) == [settled |-> "fulfilled", value |-> value]
Rejected(reason) == [settled |-> "rejected", reason |-> reason]

\* what fetchYahooGainers settles with, given what its fetch settled with
fetchYahooGainers(resp) ==
  IF resp.kind = "netError" THEN Rejected(Text("Failed to fetch"))
  ELSE IF ~ResponseOk(resp)
  THEN Rejected(Str(<<"Yahoo Finance request failed with status ">>
                    \o IntToStr(resp.status)))
  ELSE IF resp.body.quotes.k # "arr" THEN Fulfilled(<<>>)
  ELSE Fulfilled(resp.body.quotes.v)

\* the .then / .catch of loadData around fetchYahooGainers
yahooStateOf(p) ==
  IF p.settled = "fulfilled" THEN [quotes |-> p.value, error |-> Undef]
  ELSE [quotes |-> <<>>, error |-> p.reason]

NoLists == [gainers |-> Undef, losers |-> Undef, mostActive |-> Undef]

\* what callTopMoversTool settles with: through window.openai.callTool when
\* there is one (a result without structuredContent is itself the data, and
\* has none of the lists), else through GET /api/top-movers
callTopMoversTool(viaTool, resp) ==
  IF viaTool
  THEN IF resp.kind = "toolError" THEN Rejected(Text("Tool call failed"))
       ELSE IF resp.structuredContent = Undef THEN Fulfilled(NoLists)
       ELSE Fulfilled(resp.structuredContent)
  ELSE IF resp.kind = "netError" THEN Rejected(Text("Failed to fetch"))
       ELSE IF ~ResponseOk(resp)
       THEN Rejected(Str(<<"Local request failed with status ">>
                         \o IntToStr(resp.status)))
       ELSE Fulfilled(resp.body)

\* createTableSection: the heading, then the empty state or the table
createTableSection(title, rows) ==
  [title |-> title,
   body |-> IF Len(rows) = 0 THEN [kind |-> "empty"]
            ELSE [kind |-> "table", rows |-> rows]]

\* createYahooGainersSection with the error paragraph left out
createYahooGainersSectionNoError(quotes, errorMessage) ==
  [title |-> "Yahoo Gainers",
   body |-> IF Len(quotes) = 0 THEN [kind |-> "empty"]
            ELSE [kind |-> "table", rows |-> quotes]]

\* createYahooGainersSection: the heading, then the error message, the empty
\* state or the table
createYahooGainersSection(quotes, errorMessage) ==
  [title |-> "Yahoo Gainers",
   body |-> IF Truthy(errorMessage) THEN [kind |-> "error", text |-> errorMessage]
            ELSE IF Len(quotes) = 0 THEN [kind |-> "empty"]
            ELSE [kind |-> "table", rows |-> quotes]]

\* the try block of loadData without tablesContainer.replaceChildren(): the
\* four sections are appended to the children already there
renderLoadedNoClear(yahooState, data) ==
  tables \o
  <<createYahooGainersSection(yahooState.quotes, yahooState.error),
    createTableSection("Top Gainers", OrEmptyList(data.gainers)),
    createTableSection("Top Losers", OrEmptyList(data.losers)),
    createTableSection("Most Active", OrEmptyList(data.mostActive))>>

\* the try block of loadData after callTopMoversTool has resolved: the
\* container is emptied, then the four sections are appended
renderLoaded(yahooState, data) ==
  <<createYahooGainersSection(yahooState.quotes, yahooState.error),
    createTableSection("Top Gainers", OrEmptyList(data.gainers)),
    createTableSection("Top Losers", OrEmptyList(data.losers)),
    createTableSection("Most Active", OrEmptyList(data.mostActive))>>

\* the catch block of loadData: the container is emptied, then the Yahoo
\* Gainers section is appended
renderFailed(yahooState) ==
  <<createYahooGainersSection(yahooState.quotes, yahooState.error)>>

\* who appended each of the children, once invocation i has appended the last
\* `appended` of them: the children it did not remove keep their owners
ownersAfter(children, appended, i) ==
  SubSeq(tableOwners, 1, Len(children) - appended) \o [n \in 1..appended |-> i]

QuoteABC ==
  normalizeYahooQuote(
    [symbol |-> Str(S_ABC), shortName |-> Str(S_Acme), longName |-> Undef,
     regularMarketPrice |-> Fin(125, 1),
     regularMarketPreviousClose |-> Fin(12, 0),
     regularMarketChange |-> Fin(5, 1), regularMarketChangePercent |-> NaN])

\* what the widget's fetch of /api/yahoo-gainers settles with
WidgetYahooResponses ==
  {[kind |-> "netError"],
   [kind |-> "http", status |-> 500,
    body |-> [error |-> Text("Yahoo Finance request failed with status 429")]],
   [kind |-> "http", status |-> 200, body |-> [quotes |-> Undef]],
   [kind |-> "http", status |-> 200, body |-> [quotes |-> Arr(<<>>)]],
   [kind |-> "http", status |-> 200, body |-> [quotes |-> Arr(<<QuoteABC>>)]]}

WidgetData ==
  {NoLists,
   [gainers |-> Arr(<<>>), losers |-> Arr(<<>>), mostActive |-> Arr(<<>>)],
   [gainers |-> Arr(<<normalizeEntry(EntryABC)>>),
    losers |-> Arr(<<normalizeEntry(EntryXYZ)>>),
    mostActive |-> Arr(<<normalizeEntry(EntryABC), normalizeEntry(EntryXYZ)>>)]}

\* what the Provider A call settles with, by either route
WidgetTopMoversResponses(viaTool) ==
  IF viaTool
  THEN {[kind |-> "toolError"]}
       \cup [kind : {"tool"}, structuredContent : {Undef} \cup WidgetData]
  ELSE {[kind |-> "netError"],
        [kind |-> "http", status |-> 500,
         body |-> [error |-> Text("Missing ALPHA_VANTAGE_API_KEY environment variable.")]]}
       \cup [kind : {"http"}, status : {200}, body : WidgetData]

InputValues == {S_0, <<"9", "9", "9">>, S_abc, <<"7">>}

InitW ==
  /\ openai \in BOOLEAN
  /\ domLoaded = FALSE
  /\ inputValue \in InputValues
  /\ loads = <<>>
  /\ tables = <<>>
  /\ tableOwners = <<>>
  /\ status = [message |-> Str(S_empty), tone |-> "info"]
  /\ IdleA /\ IdleQ /\ IdleY /\ IdleS

\* loadDataStart with both provider calls issued at once
loadDataStartParallel ==
  LET limit == widgetLimit(inputValue)
  IN /\ inputValue' = IntToStr(limit)
     /\ status' = [message |-> Text("Loading latest movers..."), tone |-> "info"]
     /\ loads' = Append(loads,
          [pc |-> "awaitYahoo", limit |-> limit, yahoo |-> "pending",
           topMovers |-> "pending", yahooState |-> Pending, outcome |-> Pending])

\* loadData up to its first await: the limit is resolved and written back,
\* the status set, and fetchYahooGainers(limit) issued
loadDataStart ==
  LET limit == widgetLimit(inputValue)
  IN /\ inputValue' = IntToStr(limit)
     /\ status' = [message |-> Text("Loading latest movers..."), tone |-> "info"]
     /\ loads' = Append(loads,
          [pc |-> "awaitYahoo", limit |-> limit, yahoo |-> "pending",
           topMovers |-> "idle", yahooState |-> Pending, outcome |-> Pending])

\* window's DOMContentLoaded listener
DomContentLoaded ==
  /\ ~domLoaded
  /\ Len(loads) < MaxLoads
  /\ domLoaded' = TRUE
  /\ loadDataStart
  /\ UNCHANGED <<openai, tables, tableOwners, othersW>>

\* the refresh button's click listener
RefreshClick ==
  /\ Len(loads) < MaxLoads
  /\ loadDataStart
  /\ UNCHANGED <<openai, domLoaded, tables, tableOwners, othersW>>

\* the user types into the limit input
UserEditsLimit ==
  /\ Len(loads) < MaxLoads
  /\ \E v \in InputValues : v # inputValue /\ inputValue' = v
  /\ UNCHANGED <<openai, domLoaded, loads, tables, tableOwners, status, othersW>>

\* fetchYahooGainers settles for invocation i: yahooState is built and
\* callTopMoversTool(limit) is issued
YahooSettles(i) ==
  /\ loads[i].pc = "awaitYahoo"
  /\ \E resp \in WidgetYahooResponses :
       loads' = [loads EXCEPT ![i] =
         [@ EXCEPT !.pc = "awaitTopMovers", !.yahoo = "settled",
                   !.topMovers = "pending",
                   !.yahooState = yahooStateOf(fetchYahooGainers(resp))]]
  /\ UNCHANGED <<openai, domLoaded, inputValue, tables, tableOwners, status, othersW>>

\* callTopMoversTool settles for invocation i: the try block renders all the
\* sections, or the catch block the Yahoo section and the error status; the
\* invocation returns, and its yahooState goes with it
TopMoversSettles(i) ==
  /\ loads[i].pc = "awaitTopMovers"
  /\ \E resp \in WidgetTopMoversResponses(openai) :
       LET p == callTopMoversTool(openai, resp)
       IN IF p.settled = "fulfilled"
          THEN /\ tables' = renderLoaded(loads[i].yahooState, p.value)
               /\ tableOwners' = ownersAfter(tables', 4, i)
               /\ status' = [message |-> Text("Updated at <time>."), tone |-> "info"]
               /\ loads' = [loads EXCEPT ![i] =
                    [@ EXCEPT !.pc = "done", !.topMovers = "settled",
                              !.yahooState = Pending,
                              !.outcome = "loaded"]]
          ELSE /\ tables' = renderFailed(loads[i].yahooState)
               /\ tableOwners' = ownersAfter(tables', 1, i)
               /\ status' = [message |-> p.reason, tone |-> "error"]
               /\ loads' = [loads EXCEPT ![i] =
                    [@ EXCEPT !.pc = "done", !.topMovers = "settled",
                              !.yahooState = Pending,
                              !.outcome = "failed"]]
  /\ UNCHANGED <<openai, domLoaded, inputValue, othersW>>

NextW ==
  \/ DomContentLoaded
  \/ RefreshClick
  \/ UserEditsLimit
  \/ \E i \in 1..Len(loads) : YahooSettles(i)
  \/ \E i \in 1..Len(loads) : TopMoversSettles(i)

SpecW == InitW /\ [][NextW]_vars

(***************************************************************************)
(* The widget: properties                                                  *)
(***************************************************************************)
\* the tables container shows the Yahoo Gainers section with the Provider B
\* error and no table, then the three Provider A sections
ShowsYahooErrorAndProviderA(children, message) ==
  /\ Len(children) = 4
  /\ children[1].title = "Yahoo Gainers"
  /\ children[1].body = [kind |-> "error", text |-> message]
  /\ children[2].title = "Top Gainers"
  /\ children[3].title = "Top Losers"
  /\ children[4].title = "Most Active"
  /\ \A n \in 2..4 : children[n].body.kind \in {"empty", "table"}

\* the step in which invocation i's callTopMoversTool resolves, after its
\* fetchYahooGainers had failed
FinishesLoadedAfterYahooFailure(i) ==
  /\ loads[i].pc = "awaitTopMovers"
  /\ loads[i].yahooState.error # Undef
  /\ loads'[i].pc = "done"
  /\ loads'[i].outcome = "loaded"

\* C5: whenever fetchYahooGainers fails and callTopMoversTool succeeds,
\* loadData finishes with the container holding the Yahoo Gainers section
\* showing the Provider B error message and no table, followed by Top
\* Gainers, Top Losers and Most Active, and the status is not an error.
C5_YahooFailureDoesNotAbort ==
  [][\A i \in 1..Len(loads) :
       FinishesLoadedAfterYahooFailure(i) =>
         /\ ShowsYahooErrorAndProviderA(tables', loads[i].yahooState.error)
         /\ status'.tone # "error"]_vars

\* an invocation has finished loaded, and the container shows a Provider B
\* error above the three Provider A sections, the first of them a table
C5_Witness ==
  /\ \E i \in 1..Len(loads) : loads[i].pc = "done" /\ loads[i].outcome = "loaded"
  /\ Len(tables) = 4
  /\ tables[1].body.kind = "error"
  /\ tables[1].body.text.k = "str"
  /\ tables[2].body.kind = "table"
  /\ status.tone = "info"

\* C6 as stated: the Provider A call is issued without waiting for the
\* Provider B call, so while an invocation's Provider B call is outstanding
\* its Provider A call has been issued.
C6_ProviderACallNotDelayed ==
  \A i \in 1..Len(loads) :
    loads[i].yahoo = "pending" => loads[i].topMovers # "idle"

\* C6 amended: in loadData the Provider A call is issued only once the
\* Provider B call has settled, whether it succeeded or failed; within one
\* invocation the two calls are never outstanding together.
C6_ProviderACallAfterYahooSettles ==
  \A i \in 1..Len(loads) :
    /\ loads[i].topMovers # "idle" => loads[i].yahoo = "settled"
    /\ ~(loads[i].yahoo = "pending" /\ loads[i].topMovers = "pending")
    /\ loads[i].yahoo = "settled" => loads[i].topMovers # "idle"

\* the Provider A call of an invocation is outstanding after its Provider B
\* call has failed
C6_Witness ==
  \E i \in 1..Len(loads) :
    /\ loads[i].topMovers = "pending"
    /\ loads[i].yahoo = "settled"
    /\ loads[i].yahooState.error # Undef

(***************************************************************************)
(* getTopMovers: truncation                                                *)
(***************************************************************************)
\* out is the normalization of the first min(n, bound) records of the
\* upstream list, in upstream order
IsTruncatedNormalization(out, upstream, bound) ==
  LET raw == OrEmptyList(upstream)
  IN /\ Len(out) = IF Len(raw) < bound THEN Len(raw) ELSE bound
     /\ Len(out) <= bound
     /\ \A i \in 1..Len(out) : out[i] = normalizeEntry(raw[i])

\* C11: in every successful result, each of gainers, losers and mostActive
\* is the normalization of the first min(n, bound) records of its upstream
\* list (an absent list counting as empty), in upstream order, with one and
\* the same effective limit as bound; no list is longer than that limit.
C11_ListsTruncatedToOneBound ==
  (tmPc = "done" /\ IsSuccessResponse(tmRes)) =>
    /\ tmLimit.k = "fin"
    /\ tmLimit.m >= LimitMin /\ tmLimit.m <= LimitMax
    /\ IsTruncatedNormalization(tmRes.body.gainers,
                                tmUpstream.body.top_gainers, tmLimit.m)
    /\ IsTruncatedNormalization(tmRes.body.losers,
                                tmUpstream.body.top_losers, tmLimit.m)
    /\ IsTruncatedNormalization(tmRes.body.mostActive,
                                tmUpstream.body.top_most_actively_traded,
                                tmLimit.m)

\* a request with limit 1 has been answered from an upstream body with two
\* gainers and two losers and no list of most active ones
C11_Witness ==
  /\ tmPc = "done"
  /\ IsSuccessResponse(tmRes)
  /\ tmReq = Str(<<"1">>)
  /\ Len(OrEmptyList(tmUpstream.body.top_gainers)) = 2
  /\ Len(OrEmptyList(tmUpstream.body.top_losers)) = 2
  /\ tmUpstream.body.top_most_actively_traded = Undef
  /\ tmUpstream.body.top_gainers.v[1] = EntryXYZ
  /\ Len(tmRes.body.gainers) = 1
  /\ tmRes.body.gainers[1] = normalizeEntry(EntryXYZ)
  /\ Len(tmRes.body.losers) = 1
  /\ Len(tmRes.body.mostActive) = 0

(***************************************************************************)
(* GET /api/yahoo-gainers: the requested limit                             *)
(***************************************************************************)
\* C12: the quotes list returned by GET /api/yahoo-gainers?limit=N never has
\* more entries than the effective bound resolved from N, the bound that
\* GET /api/top-movers and the topMovers tool apply to their lists.
C12_YahooQuotesWithinBound ==
  (yahooPc = "done" /\ yahooRes.status = 200) =>
    Len(yahooRes.body.quotes) <= ClampedLimit(yahooReq)

(***************************************************************************)
(* The widget: overlapping loadData invocations                            *)
(***************************************************************************)
\* children is what invocation i leaves in the container: the Yahoo Gainers
\* section, followed by Top Gainers, Top Losers and Most Active when its
\* Provider A call succeeded, and by nothing when it failed
IsOutputOfInvocation(children, owners, i) ==
  /\ loads[i].pc = "done"
  /\ Len(owners) = Len(children)
  /\ \A n \in 1..Len(children) : owners[n] = i
  /\ Len(children) >= 1
  /\ children[1].title = "Yahoo Gainers"
  /\ IF loads[i].outcome = "loaded"
     THEN /\ Len(children) = 4
          /\ children[2].title = "Top Gainers"
          /\ children[3].title = "Top Losers"
          /\ children[4].title = "Most Active"
     ELSE /\ loads[i].outcome = "failed"
          /\ Len(children) = 1

\* C13: under any interleaving of overlapping loadData invocations, once an
\* invocation has rendered, the tables container holds the output of one
\* finished invocation: the Yahoo Gainers section first, then all three
\* Provider A sections if that invocation's Provider A call succeeded and
\* none if it failed; every child was appended by that one invocation.
C13_ContainerHoldsOneInvocation ==
  /\ (\E i \in 1..Len(loads) : loads[i].pc = "done") => tables # <<>>
  /\ tables # <<>> =>
       \E i \in 1..Len(loads) : IsOutputOfInvocation(tables, tableOwners, i)

\* two invocations overlapped and both have finished: the one started later
\* rendered its four sections first, then the one started earlier failed
\* and left the Yahoo Gainers section alone in the container
C13_Witness ==
  /\ Len(loads) >= 2
  /\ loads[1].pc = "done" /\ loads[1].outcome = "failed"
  /\ loads[2].pc = "done" /\ loads[2].outcome = "loaded"
  /\ tableOwners = <<1>>
  /\ Len(tables) = 1
  /\ tables[1].title = "Yahoo Gainers"

====
